---------------------------- MODULE Spec2Model ----------------------------
(***************************************************************************)
(* KNMI WOW uploader (custom_components/knmi_wow): the unit converter, the *)
(* observation assembler, the uploader and the upload state tracker of     *)
(* KNMIWOWCoordinator, with the status sensor that displays the tracker.   *)
(*                                                                         *)
(* Conventions.  A Python Optional is a sequence: None is << >> and a      *)
(* value x is <<x>>.  A float is the exact rational <<num, den>> of its    *)
(* hundredths (20.0 is <<2000, 1>>); round(value, 2) brings it to whole    *)
(* hundredths <<q, 1>>.  den = 0 is a non-finite float: <<1, 0>> is inf,   *)
(* <<-1, 0>> is -inf and <<0, 0>> is nan.  A unit string is the sequence   *)
(* of its characters, so that lower() and strip() are computed.  A dict    *)
(* is a function on its keys.                                              *)
(***************************************************************************)
EXTENDS Integers, Sequences, FiniteSets, TLC

\* ------------------------------------------------------------------ bounds
\* Upload cycles one coordinator runs.
MaxCycles == 3

\* ------------------------------------------------------- Python Optionals
None == << >>
Some(x) == <<x>>

\* dict.get(key, default)
Get(d, key, default) == IF key \in DOMAIN d THEN d[key] ELSE default

\* {**b, **a}: a Merge whose first argument takes precedence
Merge_DataWins(a, b) == a @@ b

\* {**a, **b}: the keys of both, b taking precedence
Merge(a, b) == b @@ a

\* ---------------------------------------------------------------- const.py
DEFAULT_UPDATE_INTERVAL == 10
MIN_UPDATE_INTERVAL == 10
SOFTWARE_TYPE == "HomeAssistant-KNMI-WOW"

CONF_SITE_ID == "site_id"
CONF_AUTH_KEY == "auth_key"
CONF_UPDATE_INTERVAL == "update_interval"
CONF_DEBUG_MODE == "debug_mode"

CONF_SENSOR_TEMPERATURE == "sensor_temperature"
CONF_SENSOR_HUMIDITY == "sensor_humidity"
CONF_SENSOR_PRESSURE == "sensor_pressure"
CONF_SENSOR_RAIN == "sensor_rain"
CONF_SENSOR_RAIN_DAILY == "sensor_rain_daily"
CONF_SENSOR_WIND_SPEED == "sensor_wind_speed"
CONF_SENSOR_WIND_DIR == "sensor_wind_dir"
CONF_SENSOR_WIND_GUST == "sensor_wind_gust"
CONF_SENSOR_DEW_POINT == "sensor_dew_point"

SENSOR_CONFIGS ==
    << CONF_SENSOR_TEMPERATURE, CONF_SENSOR_HUMIDITY, CONF_SENSOR_PRESSURE,
       CONF_SENSOR_RAIN, CONF_SENSOR_RAIN_DAILY, CONF_SENSOR_WIND_SPEED,
       CONF_SENSOR_WIND_DIR, CONF_SENSOR_WIND_GUST, CONF_SENSOR_DEW_POINT >>

\* SENSOR_TO_WOW_PARAM with the dew point sent under the temperature's name
SENSOR_TO_WOW_PARAM_DewPointAsTempf ==
    [ sensor_temperature |-> "tempf",
      sensor_humidity    |-> "humidity",
      sensor_pressure    |-> "baromin",
      sensor_rain        |-> "rainin",
      sensor_rain_daily  |-> "dailyrainin",
      sensor_wind_speed  |-> "windspeedmph",
      sensor_wind_dir    |-> "winddir",
      sensor_wind_gust   |-> "windgustmph",
      sensor_dew_point   |-> "tempf" ]

SENSOR_TO_WOW_PARAM ==
    [ sensor_temperature |-> "tempf",
      sensor_humidity    |-> "humidity",
      sensor_pressure    |-> "baromin",
      sensor_rain        |-> "rainin",
      sensor_rain_daily  |-> "dailyrainin",
      sensor_wind_speed  |-> "windspeedmph",
      sensor_wind_dir    |-> "winddir",
      sensor_wind_gust   |-> "windgustmph",
      sensor_dew_point   |-> "dewptf" ]

SENSOR_TYPE_TEMPERATURE == "temperature"
SENSOR_TYPE_HUMIDITY == "humidity"
SENSOR_TYPE_PRESSURE == "pressure"
SENSOR_TYPE_RAIN == "rain"
SENSOR_TYPE_WIND_SPEED == "wind_speed"
SENSOR_TYPE_WIND_DIR == "wind_dir"

SENSOR_TYPES ==
    [ sensor_temperature |-> SENSOR_TYPE_TEMPERATURE,
      sensor_humidity    |-> SENSOR_TYPE_HUMIDITY,
      sensor_pressure    |-> SENSOR_TYPE_PRESSURE,
      sensor_rain        |-> SENSOR_TYPE_RAIN,
      sensor_rain_daily  |-> SENSOR_TYPE_RAIN,
      sensor_wind_speed  |-> SENSOR_TYPE_WIND_SPEED,
      sensor_wind_dir    |-> SENSOR_TYPE_WIND_DIR,
      sensor_wind_gust   |-> SENSOR_TYPE_WIND_SPEED,
      sensor_dew_point   |-> SENSOR_TYPE_TEMPERATURE ]

\* ------------------------------------------------------------ unit strings
\* str.lower() of one character
LowerChar(c) ==
    CASE c = "A" -> "a" [] c = "B" -> "b" [] c = "C" -> "c" [] c = "D" -> "d"
      [] c = "E" -> "e" [] c = "F" -> "f" [] c = "G" -> "g" [] c = "H" -> "h"
      [] c = "I" -> "i" [] c = "J" -> "j" [] c = "K" -> "k" [] c = "L" -> "l"
      [] c = "M" -> "m" [] c = "N" -> "n" [] c = "O" -> "o" [] c = "P" -> "p"
      [] c = "Q" -> "q" [] c = "R" -> "r" [] c = "S" -> "s" [] c = "T" -> "t"
      [] c = "U" -> "u" [] c = "V" -> "v" [] c = "W" -> "w" [] c = "X" -> "x"
      [] c = "Y" -> "y" [] c = "Z" -> "z"
      [] OTHER -> c

Lower(u) == [ i \in 1..Len(u) |-> LowerChar(u[i]) ]

IsSpace(c) == c \in { " ", "\t", "\n" }

RECURSIVE LStrip(_)
LStrip(u) == IF u # << >> /\ IsSpace(Head(u)) THEN LStrip(Tail(u)) ELSE u

RECURSIVE RStrip(_)
RStrip(u) ==
    IF u # << >> /\ IsSpace(u[Len(u)]) THEN RStrip(SubSeq(u, 1, Len(u) - 1)) ELSE u

\* str.strip()
Strip(u) == RStrip(LStrip(u))

\* ----------------------------------------------------------- the converter
\* celsius * 9 / 5 + 32
celsius_to_fahrenheit(v) == << v[1] * 9 + 3200 * 5 * v[2], 5 * v[2] >>

\* hpa * 0.02953
hpa_to_inhg(v) == << v[1] * 2953, v[2] * 100000 >>

\* mm * 0.03937
mm_to_inches(v) == << v[1] * 3937, v[2] * 100000 >>

\* kmh * 0.621371
kmh_to_mph(v) == << v[1] * 621371, v[2] * 1000000 >>

\* ms * 2.23694
ms_to_mph(v) == << v[1] * 223694, v[2] * 100000 >>

\* knots * 1.15078
knots_to_mph(v) == << v[1] * 115078, v[2] * 100000 >>

\* convert_value_with_unit from `if sensor_type == ...` on: u is the unit
\* lowered and stripped, value a rational <<num, den>>
ConvertTable(value, sensor_type, u) ==
        CASE sensor_type = SENSOR_TYPE_TEMPERATURE ->
               IF u \in { <<"°", "c">>, <<"c">>, <<"c", "e", "l", "s", "i", "u", "s">> }
               THEN celsius_to_fahrenheit(value)
               ELSE IF u \in { <<"°", "f">>, <<"f">>,
                               <<"f", "a", "h", "r", "e", "n", "h", "e", "i", "t">> }
               THEN value
               ELSE celsius_to_fahrenheit(value)
          [] sensor_type = SENSOR_TYPE_HUMIDITY -> value
          [] sensor_type = SENSOR_TYPE_PRESSURE ->
               IF u \in { <<"h", "p", "a">>, <<"m", "b", "a", "r">>, <<"m", "b">> }
               THEN hpa_to_inhg(value)
               ELSE IF u \in { <<"i", "n", "h", "g">>, <<"i", "n">> }
               THEN value
               ELSE IF u \in { <<"m", "m", "h", "g">> }
               THEN << value[1] * 3937, value[2] * 100000 >>
               ELSE IF u \in { <<"p", "a">> }
               THEN << value[1] * 2953, value[2] * 100 * 100000 >>
               ELSE hpa_to_inhg(value)
          [] sensor_type = SENSOR_TYPE_RAIN ->
               IF u \in { <<"m", "m">>,
                          <<"m", "i", "l", "l", "i", "m", "e", "t", "e", "r">>,
                          <<"m", "i", "l", "l", "i", "m", "e", "t", "e", "r", "s">> }
               THEN mm_to_inches(value)
               ELSE IF u \in { <<"i", "n">>, <<"i", "n", "c", "h">>,
                               <<"i", "n", "c", "h", "e", "s">> }
               THEN value
               ELSE IF u \in { <<"c", "m">> }
               THEN mm_to_inches(<< value[1] * 10, value[2] >>)
               ELSE mm_to_inches(value)
          [] sensor_type = SENSOR_TYPE_WIND_SPEED ->
               IF u \in { <<"m", "/", "s">>, <<"m", "s">> }
               THEN ms_to_mph(value)
               ELSE IF u \in { <<"k", "m", "/", "h">>, <<"k", "m", "h">>, <<"k", "p", "h">> }
               THEN kmh_to_mph(value)
               ELSE IF u \in { <<"m", "p", "h">> }
               THEN value
               ELSE IF u \in { <<"k", "n">>, <<"k", "t">>, <<"k", "n", "o", "t", "s">> }
               THEN knots_to_mph(value)
               ELSE ms_to_mph(value)
          [] sensor_type = SENSOR_TYPE_WIND_DIR -> value
          [] OTHER -> value

\* convert_value_with_unit returning early on a null unit
convert_value_with_unit_NullUnitUnconverted(value, sensor_type, unit) ==
    IF unit = None THEN value
    ELSE ConvertTable(value, sensor_type, Strip(Lower(unit[1])))

\* convert_value_with_unit without lower()
convert_value_with_unit_CaseSensitive(value, sensor_type, unit) ==
    LET unit0 == IF unit = None THEN << >> ELSE unit[1]
    IN  ConvertTable(value, sensor_type, Strip(unit0))

\* unit is None or Some(characters)
convert_value_with_unit(value, sensor_type, unit) ==
    LET unit0 == IF unit = None THEN << >> ELSE unit[1]
    IN  ConvertTable(value, sensor_type, Strip(Lower(unit0)))

\* A float that is neither nan nor infinite
IsFinite(value) == value[2] # 0

\* round cutting the digits after the second off (math.floor)
round_Truncates(value, ndigits) ==
    IF ~IsFinite(value) THEN value ELSE << value[1] \div value[2], 1 >>

\* round(value, 2): the nearest whole number of hundredths, ties to even;
\* nan and the infinities round to themselves
round(value, ndigits) ==
    IF ~IsFinite(value) THEN value
    ELSE
      LET n == value[1]
          d == value[2]
          q == n \div d
          r == n % d
      IN  IF 2 * r < d THEN << q, 1 >>
          ELSE IF 2 * r > d THEN << q + 1, 1 >>
          ELSE IF q % 2 = 0 THEN << q, 1 >> ELSE << q + 1, 1 >>


\* str(value) of a rounded float: whole hundredths <<v, 1>>, or non-finite
StrFloat(value) ==
    IF ~IsFinite(value)
    THEN ( IF value[1] > 0 THEN "inf" ELSE IF value[1] < 0 THEN "-inf" ELSE "nan" )
    ELSE
      LET v == value[1]
          a == IF v < 0 THEN 0 - v ELSE v
          whole == a \div 100
          frac == a % 100
          digits == IF frac % 10 = 0 THEN ToString(frac \div 10)
                    ELSE IF frac < 10 THEN "0" \o ToString(frac)
                    ELSE ToString(frac)
      IN  (IF v < 0 THEN "-" ELSE "") \o ToString(whole) \o "." \o digits

\* datetime.isoformat() / strftime("%Y-%m-%d %H:%M:%S") of a time in minutes
isoformat(t) == "T+" \o ToString(t)

\* --------------------------------------------------- the host's inputs
ATTR_UNIT_OF_MEASUREMENT == "unit_of_measurement"

\* The site id and the secret key the user entered (config_flow.py, step user)
TheSiteId == "site-0042"
TheAuthKey == "731904"

\* The slots an entry may bind: one whose value is converted, one whose
\* value passes through
Slots == { CONF_SENSOR_TEMPERATURE, CONF_SENSOR_HUMIDITY }

\* The entity a slot is bound to in the sensors step
EntityOf(key) == "sensor." \o key

Intervals == { DEFAULT_UPDATE_INTERVAL }

\* entry.data as async_step_user/sensors/options build it: credentials,
\* the optional bindings, and the interval and debug flag (always present,
\* the form fills in their defaults)
DataEntries ==
    { [ site_id |-> TheSiteId, auth_key |-> TheAuthKey,
        update_interval |-> i, debug_mode |-> d ] @@ [ k \in S |-> EntityOf(k) ]
      : i \in Intervals, d \in BOOLEAN, S \in SUBSET Slots }

\* entry.options: empty until the options flow has run, then its user_input
OptionEntries ==
    { << >> } \cup
    { [ update_interval |-> i, debug_mode |-> d ] @@ b
      : i \in Intervals, d \in BOOLEAN, b \in { << >> } }

Entries == { [ data |-> d, options |-> o ] : d \in DataEntries, o \in OptionEntries }

\* What hass.states.get(entity_id) may return: None, or a state with its
\* state string and attributes
State(s, attrs) == Some([ state |-> s, attributes |-> attrs ])
Readings ==
    { None,
      State("unavailable", << >>),
      State("abc", << >>),
      State("20.0", [ unit_of_measurement |-> <<"°", "C">> ]) }

\* float(state.state) on the state strings the host is given here: None
\* stands for ValueError
float(s) ==
    CASE s = "20.0" -> Some(<< 2000, 1 >>)
      [] s = "20.06" -> Some(<< 2006, 1 >>)
      [] s = "25.0" -> Some(<< 2500, 1 >>)
      [] s = "1013.25" -> Some(<< 101325, 1 >>)
      [] s = "-3.456" -> Some(<< -3456, 10 >>)
      [] s = "nan" -> Some(<< 0, 0 >>)
      [] s = "inf" -> Some(<< 1, 0 >>)
      [] s = "-inf" -> Some(<< -1, 0 >>)
      [] OTHER -> None

\* The entities an entry binds
BoundEntities(e) ==
    LET config_data == Merge(e.data, e.options)
    IN  { config_data[k] : k \in { x \in DOMAIN config_data : x \in Slots } }

\* What the remote endpoint and the network may do with one request
Statuses == { 200, 204, 429, 500 }
Bodies == { "boom" }
Details == { "Cannot connect to host" }
Response(status, text) == [ kind |-> "response", status |-> status, text |-> text ]
ClientError(detail) == [ kind |-> "client_error", status |-> 0, text |-> detail ]
Timeout == [ kind |-> "timeout", status |-> 0, text |-> "" ]
\* The outcomes of a session.get that was given no timeout
TransportOutcomes_NoTimeout ==
    { Response(s, b) : s \in Statuses, b \in Bodies } \cup
    { ClientError(d) : d \in Details }

\* session.get(url, timeout=ClientTimeout(total=30)): an answer, a
\* connection error, or the timeout expiring
TransportOutcomes ==
    { Response(s, b) : s \in Statuses, b \in Bodies } \cup
    { ClientError(d) : d \in Details } \cup { Timeout }

\* str(ex) of an exception that is neither aiohttp.ClientError nor TimeoutError
ExcMessages == { "codec can't decode" }

\* ------------------------------------------------------------ log records
LogRecord(level, msg, args, params) ==
    [ level |-> level, msg |-> msg, args |-> args, params |-> params ]

\* The formatted record shows this literal as the value of a logged parameter
Shows(rec, literal) == \E k \in DOMAIN rec.params : rec.params[k] = literal


\* --------------------------------------------------------- coordinator.py
\* KNMIWOWCoordinator.__init__: the interval and the debug flag
InitUpdateInterval(e) ==
    Get(e.options, CONF_UPDATE_INTERVAL,
        Get(e.data, CONF_UPDATE_INTERVAL, DEFAULT_UPDATE_INTERVAL))

InitDebugMode(e) ==
    Get(e.options, CONF_DEBUG_MODE, Get(e.data, CONF_DEBUG_MODE, FALSE))

\* _collect_sensor_data, the loop from SENSOR_CONFIGS[i] on; acc carries
\* weather_data and the records logged so far.  config_data.get(key) of an
\* absent key is "", which `not entity_id` rejects like None.
RECURSIVE CollectFrom(_, _, _, _)
CollectFrom(i, config_data, states, acc) ==
    IF i > Len(SENSOR_CONFIGS) THEN acc
    ELSE
      LET sensor_key == SENSOR_CONFIGS[i]
          entity_id == Get(config_data, sensor_key, "")
          state == Get(states, entity_id, None)
          Continue(a) == CollectFrom(i + 1, config_data, states, a)
          Logged(rec) == [ acc EXCEPT !.log = Append(@, rec) ]
      IN  IF entity_id = "" THEN Continue(acc)
          ELSE IF state = None \/ state[1].state \in { "unknown", "unavailable" }
          THEN Continue(Logged(LogRecord("debug", "Sensor %s is unavailable",
                                         << entity_id >>, << >>)))
          ELSE IF float(state[1].state) = None
          THEN Continue(Logged(LogRecord("warning", "Could not parse value from %s: %s",
                                         << entity_id, state[1].state >>, << >>)))
          ELSE
            LET parsed == float(state[1].state)[1]
                unit == IF ATTR_UNIT_OF_MEASUREMENT \in DOMAIN state[1].attributes
                        THEN Some(state[1].attributes[ATTR_UNIT_OF_MEASUREMENT])
                        ELSE None
                sensor_type == Get(SENSOR_TYPES, sensor_key, "")
                value == IF sensor_type # ""
                         THEN convert_value_with_unit(parsed, sensor_type, unit)
                         ELSE parsed
                wow_param == Get(SENSOR_TO_WOW_PARAM, sensor_key, "")
                logged == IF sensor_type # ""
                          THEN Logged(LogRecord("debug",
                                   "Sensor %s: value=%s, unit=%s, converted=%s",
                                   << entity_id, state[1].state, unit, value >>, << >>))
                          ELSE acc
            IN  IF wow_param # ""
                THEN Continue([ logged EXCEPT
                        !.weather_data = (wow_param :> round(value, 2)) @@ @ ])
                ELSE Continue(logged)

_collect_sensor_data(e, states) ==
    CollectFrom(1, Merge(e.data, e.options), states,
                [ weather_data |-> << >>, log |-> << >> ])

\* NoData as `if weather_data is None` would decide it: never for a dict
NoData_NeverTrue(weather_data) == FALSE

\* `if not weather_data`
NoData(weather_data) == weather_data = << >>

_build_request_params(weather_data, site_id, auth_key, now_utc) ==
    [ k \in DOMAIN weather_data |-> StrFloat(weather_data[k]) ] @@
    [ siteid                |-> site_id,
      siteAuthenticationKey |-> auth_key,
      dateutc               |-> isoformat(now_utc),
      softwaretype          |-> SOFTWARE_TYPE ]

\* The debug-mode copy of the parameters that _async_update_data logs
SafeLogParams(params) ==
    [ k \in (DOMAIN params) \cup { "siteAuthenticationKey" } |->
        IF k = "siteAuthenticationKey" THEN "******" ELSE params[k] ]

\* _send_to_wow without the `elif response.status == 429` branch
_send_to_wow_No429Branch(o) ==
    CASE o.kind = "response" /\ o.status = 200 ->
           [ success |-> TRUE, error |-> None ]
      [] o.kind = "response" /\ o.status # 200 ->
           [ success |-> FALSE,
             error |-> Some("HTTP " \o ToString(o.status) \o ": " \o o.text) ]
      [] o.kind = "client_error" ->
           [ success |-> FALSE, error |-> Some("Connection error: " \o o.text) ]
      [] o.kind = "timeout" ->
           [ success |-> FALSE, error |-> Some("Request timed out") ]

\* _send_to_wow: what it returns for each thing the transport can do
_send_to_wow(o) ==
    CASE o.kind = "response" /\ o.status = 200 ->
           [ success |-> TRUE, error |-> None ]
      [] o.kind = "response" /\ o.status = 429 ->
           [ success |-> FALSE, error |-> Some("Rate limit exceeded (429)") ]
      [] o.kind = "response" /\ o.status \notin { 200, 429 } ->
           [ success |-> FALSE,
             error |-> Some("HTTP " \o ToString(o.status) \o ": " \o o.text) ]
      [] o.kind = "client_error" ->
           [ success |-> FALSE, error |-> Some("Connection error: " \o o.text) ]
      [] o.kind = "timeout" ->
           [ success |-> FALSE, error |-> Some("Request timed out") ]

\* The records _send_to_wow logs once the transport has answered
SendLog(o) ==
    IF o.kind = "response" /\ o.status = 429
    THEN << LogRecord("warning",
              "WOW API rate limit exceeded (429). Consider increasing upload interval.",
              << >>, << >>) >>
    ELSE << >>

\* _get_status_data taking the status from last_upload, as the sensor does
_get_status_data_StatusFromLastUpload(success, error, lu, uc, dm, lrp, ui, t) ==
    LET data0 == [ status       |-> IF lu # None THEN "ok" ELSE "error",
                   last_upload  |-> IF lu # None THEN Some(isoformat(lu[1])) ELSE None,
                   last_error   |-> error,
                   next_upload  |-> isoformat(t + ui),
                   upload_count |-> uc,
                   debug_mode   |-> dm ]
    IN  IF dm /\ lrp # None /\ lrp[1] # << >>
        THEN [ last_sent_data |->
                 [ k \in (DOMAIN lrp[1]) \ { "siteAuthenticationKey", "siteid" } |->
                     lrp[1][k] ] ] @@ data0
        ELSE data0

\* _get_status_data stripping the key alone, as the logged copy does
_get_status_data_KeepsSiteId(success, error, lu, uc, dm, lrp, ui, t) ==
    LET data0 == [ status       |-> IF success THEN "ok" ELSE "error",
                   last_upload  |-> IF lu # None THEN Some(isoformat(lu[1])) ELSE None,
                   last_error   |-> error,
                   next_upload  |-> isoformat(t + ui),
                   upload_count |-> uc,
                   debug_mode   |-> dm ]
    IN  IF dm /\ lrp # None /\ lrp[1] # << >>
        THEN [ last_sent_data |->
                 [ k \in (DOMAIN lrp[1]) \ { "siteAuthenticationKey" } |-> lrp[1][k] ] ]
             @@ data0
        ELSE data0

_get_status_data(success, error, lu, uc, dm, lrp, ui, t) ==
    LET data0 == [ status       |-> IF success THEN "ok" ELSE "error",
                   last_upload  |-> IF lu # None THEN Some(isoformat(lu[1])) ELSE None,
                   last_error   |-> error,
                   next_upload  |-> isoformat(t + ui),
                   upload_count |-> uc,
                   debug_mode   |-> dm ]
    IN  IF dm /\ lrp # None /\ lrp[1] # << >>
        THEN [ last_sent_data |->
                 [ k \in (DOMAIN lrp[1]) \ { "siteAuthenticationKey", "siteid" } |->
                     lrp[1][k] ] ] @@ data0
        ELSE data0

\* RecordResult counting every answered request, not only the successes
RecordResult_CountsEveryAttempt(success, error, lu, le, uc, t) ==
    IF success
    THEN [ last_upload |-> Some(t), last_error |-> None, upload_count |-> uc + 1 ]
    ELSE [ last_upload |-> lu, last_error |-> error, upload_count |-> uc + 1 ]

\* RecordResult setting the time of a successful upload without counting it
RecordResult_SetsTimeOnly(success, error, lu, le, uc, t) ==
    IF success
    THEN [ last_upload |-> Some(t), last_error |-> None, upload_count |-> uc ]
    ELSE [ last_upload |-> lu, last_error |-> error, upload_count |-> uc ]

\* RecordResult forgetting the last upload when a request fails
RecordResult_ClearsLastUpload(success, error, lu, le, uc, t) ==
    IF success
    THEN [ last_upload |-> Some(t), last_error |-> None, upload_count |-> uc + 1 ]
    ELSE [ last_upload |-> None, last_error |-> error, upload_count |-> uc ]

\* _async_update_data after _send_to_wow has returned (success, error):
\* the tracker fields it leaves
RecordResult(success, error, lu, le, uc, t) ==
    IF success
    THEN [ last_upload |-> Some(t), last_error |-> None, upload_count |-> uc + 1 ]
    ELSE [ last_upload |-> lu, last_error |-> error, upload_count |-> uc ]

\* ExceptHandler returning _get_status_data(success=False), the message lost
ExceptHandler_DropsMessage(error_msg, lu, uc, dm, lrp, ui, t) ==
    [ last_error |-> Some(error_msg),
      data |-> _get_status_data(FALSE, None, lu, uc, dm, lrp, ui, t) ]

\* _async_update_data, `except Exception as ex`: the last_error it stores
\* and the snapshot it returns
ExceptHandler(error_msg, lu, uc, dm, lrp, ui, t) ==
    [ last_error |-> Some(error_msg),
      data |-> _get_status_data(FALSE, Some(error_msg), lu, uc, dm, lrp, ui, t) ]

\* --------------------------------------------------------------- sensor.py
STATUS_PENDING == "pending"
STATUS_OK == "ok"
STATUS_ERROR == "error"

\* KNMIWOWStatusSensor.native_value; `if last_error` is false for None and ""
native_value(le, lu) ==
    IF le # None /\ le[1] # "" THEN STATUS_ERROR
    ELSE IF lu # None THEN STATUS_OK
    ELSE STATUS_PENDING

\* KNMIWOWStatusSensor.extra_state_attributes; d is coordinator.data
extra_state_attributes(d, e) ==
    IF d = None THEN << >>
    ELSE
      LET attrs == [ last_upload  |-> d[1].last_upload,
                     last_error   |-> d[1].last_error,
                     next_upload  |-> d[1].next_upload,
                     upload_count |-> d[1].upload_count,
                     site_id      |-> e.data[CONF_SITE_ID],
                     debug_mode   |-> d[1].debug_mode ]
      IN  IF "last_sent_data" \in DOMAIN d[1] /\ d[1].last_sent_data # << >>
          THEN [ last_sent_data |-> d[1].last_sent_data ] @@ attrs
          ELSE attrs


\* ------------------------------------------------------------------- state
VARIABLES
    entry,                \* the config entry: [data, options]
    debug_mode,           \* coordinator.debug_mode
    update_interval,      \* coordinator.update_interval, minutes
    last_upload,          \* coordinator.last_upload, Optional time
    last_error,           \* coordinator.last_error, Optional message
    upload_count,         \* coordinator.upload_count
    last_request_params,  \* coordinator.last_request_params, Optional dict
    data,                 \* coordinator.data: the snapshot the last cycle returned
    pc,                   \* "idle", "in_flight" (awaiting _send_to_wow), "abandoned"
    weather_data,         \* the observation the current cycle assembled, Optional
    log,                  \* the records the current cycle has logged
    requests,             \* HTTP requests issued so far
    now,                  \* the host's clock, minutes
    cycles,               \* cycles started
    completed,            \* cycles that returned a snapshot
    outcome,              \* how the most recent cycle ended, or that it is in flight
    pre,                  \* while a request is in flight or abandoned: the upload
                          \* state its cycle found, Optional
    probe,                \* the last function application and its result,
                          \* Optional: only the function specification sets it
    hass_data,            \* hass.data[DOMAIN] holds the entry's coordinator
    platforms,            \* the sensor platform is set up: the status sensor is there
    setup,                \* "running" (async_setup_entry awaits the first refresh),
                          \* "loaded", "not_ready", "unloaded", "failed_unload"
    sent_at               \* when the last two requests for the site were issued:
                          \* << the one before, the latest >>, each Optional

vars == << entry, debug_mode, update_interval, last_upload, last_error,
           upload_count, last_request_params, data, pc, weather_data, log,
           requests, now, cycles, completed, outcome, pre, probe,
           hass_data, platforms, setup, sent_at >>

config == << entry, debug_mode, update_interval >>

host == << hass_data, platforms, setup >>

\* The upload state: the four fields of the tracker
UploadState ==
    [ last_upload |-> last_upload, last_error |-> last_error,
      upload_count |-> upload_count, last_request_params |-> last_request_params ]

Outcome(kind, status, text) == [ kind |-> kind, status |-> status, text |-> text ]

Init ==
    /\ entry \in Entries
    /\ debug_mode = InitDebugMode(entry)
    /\ update_interval = InitUpdateInterval(entry)
    /\ last_upload = None
    /\ last_error = None
    /\ upload_count = 0
    /\ last_request_params = None
    /\ data = None
    /\ pc = "idle"
    /\ weather_data = None
    /\ log = << >>
    /\ requests = 0
    /\ now = 0
    /\ cycles = 0
    /\ completed = 0
    /\ outcome = Outcome("none", 0, "")
    /\ pre = None
    /\ probe = None
    /\ hass_data = FALSE
    /\ platforms = FALSE
    /\ setup = "running"
    /\ sent_at = << None, None >>

\* _async_update_data raising instead of returning its snapshot when the
\* cycle failed (raise UpdateFailed)
Raises_UpdateFailedOnFailure(success) == ~success

\* Whether _async_update_data raises when its cycle ends with this success
\* flag: every path returns a snapshot, the except clause included
Raises(success) == FALSE

\* async_setup_entry of __init__.py once the first refresh is over:
\* async_config_entry_first_refresh raises ConfigEntryNotReady if the
\* update raised; otherwise the coordinator is stored, the sensor platform
\* is set up (sensor.py creates the status sensor) and True is returned
async_setup_entry(raised) ==
    IF raised
    THEN [ hass_data |-> FALSE, platforms |-> FALSE, setup |-> "not_ready" ]
    ELSE [ hass_data |-> TRUE, platforms |-> TRUE, setup |-> "loaded" ]

\* The end of a cycle: async_setup_entry resumes if this was its first refresh
SetupResumes(raised) ==
    IF setup = "running"
    THEN LET r == async_setup_entry(raised)
         IN  /\ hass_data' = r.hass_data
             /\ platforms' = r.platforms
             /\ setup' = r.setup
    ELSE UNCHANGED host

\* _async_update_data is called: by async_config_entry_first_refresh at
\* once, by the scheduler an update interval after the previous cycle
CycleStarts ==
    /\ pc = "idle"
    /\ setup \in { "running", "loaded" }
    /\ cycles < MaxCycles
    /\ cycles' = cycles + 1
    /\ now' = IF setup = "running" THEN now ELSE now + update_interval

\* _async_update_data, lines 67-73: nothing collected, the cycle returns
CycleNoData(states) ==
    LET c == _collect_sensor_data(entry, states)
    IN  /\ CycleStarts
        /\ NoData(c.weather_data)
        /\ weather_data' = Some(c.weather_data)
        /\ log' = Append(c.log,
                    LogRecord("warning", "No sensor data available to upload", << >>, << >>))
        /\ data' = Some(_get_status_data(FALSE, Some("No sensor data available"),
                          last_upload, upload_count, debug_mode,
                          last_request_params, update_interval, now'))
        /\ completed' = completed + 1
        /\ SetupResumes(Raises(FALSE))
        /\ outcome' = Outcome("no_data", 0, "")
        /\ UNCHANGED << config, probe, sent_at, last_upload, last_error, upload_count,
                        last_request_params, pc, requests, pre >>

\* _async_update_data, lines 67-87 and _send_to_wow up to its await: the
\* request is built, remembered, logged and issued
CycleSend(states) ==
    LET c == _collect_sensor_data(entry, states)
        params == _build_request_params(c.weather_data, entry.data[CONF_SITE_ID],
                                        entry.data[CONF_AUTH_KEY], now')
    IN  /\ CycleStarts
        /\ ~NoData(c.weather_data)
        /\ weather_data' = Some(c.weather_data)
        /\ last_request_params' = Some(params)
        /\ log' = c.log
                  \o ( IF debug_mode
                       THEN << LogRecord("info", "KNMI WOW Debug - Sending data: %s",
                                         << >>, SafeLogParams(params)) >>
                       ELSE << >> )
                  \o << LogRecord("debug", "Sending request to WOW: %s", << >>, params) >>
        /\ requests' = requests + 1
        /\ pc' = "in_flight"
        /\ pre' = Some(UploadState)
        /\ outcome' = Outcome("in_flight", 0, "")
        /\ sent_at' = << sent_at[2], Some(now') >>
        /\ UNCHANGED << config, probe, host, last_upload, last_error, upload_count, data,
                        completed >>

\* An exception while the sensor values are collected, before anything
\* is assembled or sent: `except Exception` turns it into a failed cycle
CollectRaises(error_msg) ==
    LET h == ExceptHandler(error_msg, last_upload, upload_count, debug_mode,
                           last_request_params, update_interval, now')
    IN  /\ CycleStarts
        /\ weather_data' = None
        /\ last_error' = h.last_error
        /\ log' = << LogRecord("error", "Error uploading weather data to KNMI WOW",
                               << error_msg >>, << >>) >>
        /\ data' = Some(h.data)
        /\ completed' = completed + 1
        /\ SetupResumes(Raises(FALSE))
        /\ outcome' = Outcome("exception", 0, error_msg)
        /\ UNCHANGED << config, probe, sent_at, last_upload, upload_count, last_request_params,
                        pc, requests, pre >>

\* An exception while the request is built from a collected observation
BuildRaises(states, error_msg) ==
    LET c == _collect_sensor_data(entry, states)
        h == ExceptHandler(error_msg, last_upload, upload_count, debug_mode,
                           last_request_params, update_interval, now')
    IN  /\ CycleStarts
        /\ ~NoData(c.weather_data)
        /\ weather_data' = Some(c.weather_data)
        /\ last_error' = h.last_error
        /\ log' = Append(c.log,
                    LogRecord("error", "Error uploading weather data to KNMI WOW",
                              << error_msg >>, << >>))
        /\ data' = Some(h.data)
        /\ completed' = completed + 1
        /\ SetupResumes(Raises(FALSE))
        /\ outcome' = Outcome("exception", 0, error_msg)
        /\ UNCHANGED << config, probe, sent_at, last_upload, upload_count, last_request_params,
                        pc, requests, pre >>

\* A _send_to_wow that sends the request once more when it is rate limited
Resends_RetriesOn429(o) ==
    IF o.kind = "response" /\ o.status = 429 THEN 1 ELSE 0

\* Requests _send_to_wow issues after its first one came back as o: the
\* body is one session.get with no loop around it, and _async_update_data
\* calls _send_to_wow once
Resends(o) == 0

\* _send_to_wow returns (success, error); _async_update_data, lines 89-101
SendReturns(o) ==
    LET r == _send_to_wow(o)
        t == RecordResult(r.success, r.error, last_upload, last_error, upload_count, now)
    IN  /\ pc = "in_flight"
        /\ o \in TransportOutcomes
        /\ last_upload' = t.last_upload
        /\ last_error' = t.last_error
        /\ upload_count' = t.upload_count
        /\ log' = log \o SendLog(o)
                  \o << IF r.success
                        THEN IF debug_mode
                             THEN LogRecord("info", "KNMI WOW Debug - Upload successful",
                                            << >>, << >>)
                             ELSE LogRecord("info",
                                    "Successfully uploaded weather data to KNMI WOW",
                                    << >>, << >>)
                        ELSE LogRecord("error", "Failed to upload weather data: %s",
                                       << r.error[1] >>, << >>) >>
        /\ data' = Some(_get_status_data(r.success, r.error, last_upload', upload_count',
                          debug_mode, last_request_params, update_interval, now))
        /\ pc' = "idle"
        /\ completed' = completed + 1
        /\ SetupResumes(Raises(r.success))
        /\ outcome' = o
        /\ pre' = None
        /\ requests' = requests + Resends(o)
        /\ UNCHANGED << config, probe, sent_at, last_request_params, weather_data, now,
                        cycles >>

\* _send_to_wow raises something that is neither ClientError nor
\* TimeoutError (response.text() failing to decode): `except Exception`
SendRaises(error_msg) ==
    LET h == ExceptHandler(error_msg, last_upload, upload_count, debug_mode,
                           last_request_params, update_interval, now)
    IN  /\ pc = "in_flight"
        /\ last_error' = h.last_error
        /\ log' = Append(log, LogRecord("error", "Error uploading weather data to KNMI WOW",
                                        << error_msg >>, << >>))
        /\ data' = Some(h.data)
        /\ pc' = "idle"
        /\ completed' = completed + 1
        /\ SetupResumes(Raises(FALSE))
        /\ outcome' = Outcome("exception", 0, error_msg)
        /\ pre' = None
        /\ UNCHANGED << config, probe, sent_at, last_upload, upload_count, last_request_params,
                        weather_data, requests, now, cycles >>

\* The host shuts down while the request is in flight: CancelledError is
\* no Exception, so it leaves _async_update_data and nothing more runs
Abandon ==
    /\ pc = "in_flight"
    /\ pc' = "abandoned"
    /\ outcome' = Outcome("abandoned", 0, "")
    /\ UNCHANGED << config, probe, sent_at, host, last_upload, last_error, upload_count,
                    last_request_params, data, weather_data, log, requests, now,
                    cycles, completed, pre >>

Next ==
    \/ \E states \in [ BoundEntities(entry) -> Readings ] : CycleNoData(states)
    \/ \E states \in [ BoundEntities(entry) -> Readings ] : CycleSend(states)
    \/ \E m \in ExcMessages : CollectRaises(m)
    \/ \E states \in [ BoundEntities(entry) -> Readings ], m \in ExcMessages :
          BuildRaises(states, m)
    \/ \E o \in TransportOutcomes : SendReturns(o)
    \/ \E m \in ExcMessages : SendRaises(m)
    \/ Abandon

Spec == Init /\ [][Next]_vars

\* The request's total timeout is a timer of the event loop: while the
\* request stays in flight it does expire
LiveSpec == Spec /\ WF_vars(SendReturns(Timeout))

\* ---------------------------------------------------- the entry's lifecycle
\* async_unload_entry: the coordinator is popped from hass.data only if
\* async_unload_platforms succeeded
async_unload_entry(unload_ok) ==
    /\ setup = "loaded"
    /\ pc = "idle"
    /\ hass_data' = IF unload_ok THEN FALSE ELSE hass_data
    /\ platforms' = IF unload_ok THEN FALSE ELSE platforms
    /\ setup' = IF unload_ok THEN "unloaded" ELSE "failed_unload"
    /\ UNCHANGED << config, probe, sent_at, last_upload, last_error, upload_count,
                    last_request_params, data, pc, weather_data, log, requests,
                    now, cycles, completed, outcome, pre >>

\* When the user may submit the options form: the minute after a cycle, or
\* the minute before the next one
ReloadDelays == { 1, update_interval - 1 }

\* async_update_options: the options flow has stored user_input as
\* entry.options and the listener reloads the entry.  The entry is unloaded
\* and async_setup_entry constructs a new coordinator (__init__, lines
\* 37-63) and awaits its first refresh, which starts at once
async_update_options(options, elapsed) ==
    /\ setup = "loaded"
    /\ pc = "idle"
    /\ cycles < MaxCycles
    /\ entry' = [ entry EXCEPT !.options = options ]
    /\ debug_mode' = InitDebugMode(entry')
    /\ update_interval' = InitUpdateInterval(entry')
    /\ last_upload' = None
    /\ last_error' = None
    /\ upload_count' = 0
    /\ last_request_params' = None
    /\ data' = None
    /\ weather_data' = None
    /\ log' = << >>
    /\ outcome' = Outcome("none", 0, "")
    /\ hass_data' = FALSE
    /\ platforms' = FALSE
    /\ setup' = "running"
    /\ now' = now + elapsed
    /\ UNCHANGED << probe, sent_at, pc, requests, cycles, completed, pre >>

\* An entry with the temperature slot bound and no options yet
EntryInit ==
    /\ Init
    /\ entry.options = << >>
    /\ BoundEntities(entry) = { EntityOf(CONF_SENSOR_TEMPERATURE) }

EntryNext ==
    \/ Next
    \/ \E unload_ok \in BOOLEAN : async_unload_entry(unload_ok)
    \/ \E options \in OptionEntries \ { << >> }, elapsed \in ReloadDelays :
          async_update_options(options, elapsed)

EntrySpec == EntryInit /\ [][EntryNext]_vars

\* ------------------------------------------------- the functions, applied
\* The pure functions of the integration applied once to an input drawn
\* from the sets below, the application and its result kept in probe.

\* The variables of the coordinator and its host
coordinator ==
    << entry, debug_mode, update_interval, last_upload, last_error,
       upload_count, last_request_params, data, pc, weather_data, log,
       requests, now, cycles, completed, outcome, pre,
       hass_data, platforms, setup, sent_at >>

\* The unit strings convert_value_with_unit recognises, as written in its
\* tuples, with the category that recognises each
UnitStrings ==
    [ temperature |->
        { <<"°", "c">>, <<"c">>, <<"c", "e", "l", "s", "i", "u", "s">>,
          <<"°", "f">>, <<"f">>,
          <<"f", "a", "h", "r", "e", "n", "h", "e", "i", "t">> },
      pressure |->
        { <<"h", "p", "a">>, <<"m", "b", "a", "r">>, <<"m", "b">>,
          <<"i", "n", "h", "g">>, <<"i", "n">>, <<"m", "m", "h", "g">>,
          <<"p", "a">> },
      rain |->
        { <<"m", "m">>, <<"m", "i", "l", "l", "i", "m", "e", "t", "e", "r">>,
          <<"m", "i", "l", "l", "i", "m", "e", "t", "e", "r", "s">>,
          <<"i", "n">>, <<"i", "n", "c", "h">>, <<"i", "n", "c", "h", "e", "s">>,
          <<"c", "m">> },
      wind_speed |->
        { <<"m", "/", "s">>, <<"m", "s">>, <<"k", "m", "/", "h">>,
          <<"k", "m", "h">>, <<"k", "p", "h">>, <<"m", "p", "h">>,
          <<"k", "n">>, <<"k", "t">>, <<"k", "n", "o", "t", "s">> } ]

\* Unit strings no category recognises: empty, kelvin, a percent sign, a word
OtherUnitStrings == { << >>, <<"k">>, <<"%">>, <<"x", "y", "z">> }

\* The ways a sensor may spell a unit string: as in the table, in capitals,
\* or in capitals with blanks around it
UpperChar(c) ==
    CASE c = "a" -> "A" [] c = "b" -> "B" [] c = "c" -> "C" [] c = "d" -> "D"
      [] c = "e" -> "E" [] c = "f" -> "F" [] c = "g" -> "G" [] c = "h" -> "H"
      [] c = "i" -> "I" [] c = "j" -> "J" [] c = "k" -> "K" [] c = "l" -> "L"
      [] c = "m" -> "M" [] c = "n" -> "N" [] c = "o" -> "O" [] c = "p" -> "P"
      [] c = "q" -> "Q" [] c = "r" -> "R" [] c = "s" -> "S" [] c = "t" -> "T"
      [] c = "u" -> "U" [] c = "v" -> "V" [] c = "w" -> "W" [] c = "x" -> "X"
      [] c = "y" -> "Y" [] c = "z" -> "Z"
      [] OTHER -> c
Spellings == { "lower", "upper", "padded" }
Spell(u, spelling) ==
    LET upper == [ i \in 1..Len(u) |-> UpperChar(u[i]) ]
    IN  CASE spelling = "lower" -> u
          [] spelling = "upper" -> upper
          [] OTHER -> <<" ">> \o upper \o <<" ", " ">>

\* The values given to the converter: 20.0, -5.5, nan
SensorCategories ==
    { SENSOR_TYPE_TEMPERATURE, SENSOR_TYPE_HUMIDITY, SENSOR_TYPE_PRESSURE,
      SENSOR_TYPE_RAIN, SENSOR_TYPE_WIND_SPEED, SENSOR_TYPE_WIND_DIR }
ConvertValues == { << 2000, 1 >>, << -550, 1 >>, << 0, 0 >> }

\* convert_value_with_unit(value, sensor_type, unit); written is the unit
\* string before the sensor's spelling of it, None for a null unit
ApplyConvert(value, sensor_type, written, spelling) ==
    LET unit == IF written = None THEN None ELSE Some(Spell(written[1], spelling))
    IN  /\ probe = None
        /\ probe' = Some([ fn |-> "convert", value |-> value,
                           sensor_type |-> sensor_type, written |-> written,
                           unit |-> unit,
                           result |-> convert_value_with_unit(value, sensor_type, unit) ])
        /\ UNCHANGED coordinator

\* The states the sensors may have when the observation is assembled
ProbeReadings ==
    Readings \cup
    { State("unknown", << >>),
      State("20.06", [ unit_of_measurement |-> <<"°", "C">> ]),
      State("1013.25", [ unit_of_measurement |-> <<"h", "P", "a">> ]),
      State("-3.456", << >>),
      State("nan", << >>),
      State("inf", [ unit_of_measurement |-> <<"°", "C">> ]) }

\* A wind sensor does not read 1013.25
ReadingsOf(sensor_key) ==
    IF SENSOR_TYPES[sensor_key] = SENSOR_TYPE_WIND_SPEED
    THEN { r \in ProbeReadings : r = None \/ r[1].state # "1013.25" }
    ELSE ProbeReadings

AllSlots == { SENSOR_CONFIGS[i] : i \in 1..Len(SENSOR_CONFIGS) }

\* The slots bound in the sensors step: none, one, the temperature and
\* another one, or all of them
ProbeBindings ==
    { S \in SUBSET AllSlots :
        \/ Cardinality(S) <= 1
        \/ Cardinality(S) = 2 /\ CONF_SENSOR_TEMPERATURE \in S
        \/ S = AllSlots }

EntryBinding(S) ==
    [ data |-> [ site_id |-> TheSiteId, auth_key |-> TheAuthKey ]
               @@ [ k \in S |-> EntityOf(k) ],
      options |-> << >> ]

\* The states of the bound sensors: any combination, but one state for
\* all when every slot is bound
ProbeStates(S) ==
    IF S = AllSlots
    THEN { [ k \in S |-> r ] : r \in ReadingsOf(CONF_SENSOR_WIND_SPEED) }
    ELSE { st \in [ S -> ProbeReadings ] : \A k \in S : st[k] \in ReadingsOf(k) }

\* _collect_sensor_data and, for an observation that is not empty,
\* _build_request_params
ApplyCollect(S, st) ==
    LET e == EntryBinding(S)
        states == [ id \in { EntityOf(k) : k \in S } |->
                      st[CHOOSE k \in S : EntityOf(k) = id] ]
        c == _collect_sensor_data(e, states)
    IN  /\ probe = None
        /\ probe' = Some([ fn |-> "collect", bound |-> S, states |-> st,
                           weather_data |-> c.weather_data,
                           params |->
                             IF NoData(c.weather_data) THEN None
                             ELSE Some(_build_request_params(c.weather_data,
                                         e.data[CONF_SITE_ID], e.data[CONF_AUTH_KEY],
                                         now)) ])
        /\ UNCHANGED coordinator

\* Entries whose data and options each have or lack the interval, the
\* debug flag and the temperature binding
OtherEntity == "sensor.garden_temperature"
OptionalKey(key, values) == { << >> } \cup { key :> v : v \in values }
ProbeEntries ==
    { [ data |-> [ site_id |-> TheSiteId, auth_key |-> TheAuthKey ] @@ di @@ dd @@ db,
        options |-> oi @@ od @@ ob ]
      : di \in OptionalKey(CONF_UPDATE_INTERVAL, { DEFAULT_UPDATE_INTERVAL, 30 }),
        dd \in OptionalKey(CONF_DEBUG_MODE, BOOLEAN),
        db \in OptionalKey(CONF_SENSOR_TEMPERATURE, { EntityOf(CONF_SENSOR_TEMPERATURE) }),
        oi \in OptionalKey(CONF_UPDATE_INTERVAL, { 15 }),
        od \in OptionalKey(CONF_DEBUG_MODE, BOOLEAN),
        ob \in OptionalKey(CONF_SENSOR_TEMPERATURE, { OtherEntity }) }

\* The two temperature sensors read 20.0 and 25.0 degrees Celsius
ProbeTemperatures ==
    ( EntityOf(CONF_SENSOR_TEMPERATURE) :>
        State("20.0", [ unit_of_measurement |-> <<"°", "C">> ]) ) @@
    ( OtherEntity :> State("25.0", [ unit_of_measurement |-> <<"°", "C">> ]) )

\* KNMIWOWCoordinator(hass, entry) and the observation it then assembles
ApplyInit(e) ==
    /\ probe = None
    /\ probe' = Some([ fn |-> "init", entry |-> e,
                       update_interval |-> InitUpdateInterval(e),
                       debug_mode |-> InitDebugMode(e),
                       weather_data |->
                         _collect_sensor_data(e, ProbeTemperatures).weather_data ])
    /\ UNCHANGED coordinator

\* A coordinator just constructed, its entry as the config flow leaves it
\* when no slot is bound
FunctionInit ==
    /\ Init
    /\ entry.options = << >>
    /\ BoundEntities(entry) = { }
    /\ ~debug_mode

FunctionNext ==
    \/ \E value \in ConvertValues, sensor_type \in SensorCategories,
          c \in DOMAIN UnitStrings, spelling \in Spellings :
          \E u \in UnitStrings[c] : ApplyConvert(value, sensor_type, Some(u), spelling)
    \/ \E value \in ConvertValues, sensor_type \in SensorCategories :
          \E written \in { None } \cup { Some(u) : u \in OtherUnitStrings } :
             ApplyConvert(value, sensor_type, written, "lower")
    \/ \E S \in ProbeBindings : \E st \in ProbeStates(S) : ApplyCollect(S, st)
    \/ \E e \in ProbeEntries : ApplyInit(e)

FunctionSpec == FunctionInit /\ [][FunctionNext]_vars



\* ------------------------------------------------------------------ claims
\* A cycle has returned a snapshot and none is running
BetweenCycles == pc = "idle" /\ completed > 0

\* The most recent cycle's request returned HTTP 200
Succeeded == outcome.kind = "response" /\ outcome.status = 200

\* This step is the return of a cycle
Completes == completed' = completed + 1

\* C1: upload_count starts at 0 and never decreases; the step that ends a
\* cycle adds exactly 1 when the cycle's request returned HTTP 200, and every
\* other step (a cycle ending in no-data, 429, another status, a connection
\* error, a timeout or an exception; a request being sent or abandoned)
\* leaves it unchanged.
C1_UploadCountOnlyOn200 ==
    /\ upload_count = 0
    /\ [][ IF Completes /\ outcome'.kind = "response" /\ outcome'.status = 200
           THEN upload_count' = upload_count + 1
           ELSE upload_count' = upload_count ]_vars

\* Two cycles succeeded, then one was rate limited
C1_Witness ==
    /\ completed = 3
    /\ upload_count = 2
    /\ outcome.kind = "response" /\ outcome.status = 429

\* C2: after every completed cycle the tracker's last_error is null if and
\* only if that cycle succeeded.
C2_LastErrorNullIffSucceeded ==
    BetweenCycles => (last_error = None <=> Succeeded)

\* C3: the status indicator is 'pending' only while no cycle has completed,
\* and after every completed cycle it is 'ok' if that cycle succeeded and
\* 'error' if it failed, whatever the earlier cycles did.
C3_StatusFollowsLastCycle ==
    /\ native_value(last_error, last_upload) = STATUS_PENDING => completed = 0
    /\ BetweenCycles =>
         native_value(last_error, last_upload) =
           IF Succeeded THEN STATUS_OK ELSE STATUS_ERROR

\* upload_count in the snapshot before this one (0 before the first)
PreviousCount == IF data = None THEN 0 ELSE data[1].upload_count

\* C4: the snapshot a cycle returns after HTTP 200 has status 'ok', last_error
\* null and upload_count one more than the previous snapshot's; after HTTP 429
\* it has status 'error', last_error 'Rate limit exceeded (429)' and the
\* previous snapshot's upload_count.
C4_SnapshotReflectsOutcome ==
    [][ (Completes /\ outcome'.kind = "response") =>
          /\ outcome'.status = 200 =>
               /\ data'[1].status = "ok"
               /\ data'[1].last_error = None
               /\ data'[1].upload_count = PreviousCount + 1
          /\ outcome'.status = 429 =>
               /\ data'[1].status = "error"
               /\ data'[1].last_error = Some("Rate limit exceeded (429)")
               /\ data'[1].upload_count = PreviousCount ]_vars

\* A rate-limited cycle after a successful one
C4_Witness ==
    /\ BetweenCycles
    /\ outcome.kind = "response" /\ outcome.status = 429
    /\ data[1].upload_count = 1
    /\ data[1].last_upload # None

\* C5: a cycle that assembles an empty observation returns at once with the
\* error 'No sensor data available' and issues no HTTP request.
C5_EmptyObservationNoRequest ==
    [][ (cycles' = cycles + 1 /\ weather_data' = Some(<< >>)) =>
          /\ Completes
          /\ requests' = requests
          /\ pc' = "idle"
          /\ data'[1].status = "error"
          /\ data'[1].last_error = Some("No sensor data available") ]_vars

\* Both slots are bound and both were skipped, after a cycle that did upload
C5_Witness ==
    /\ BetweenCycles
    /\ weather_data = Some(<< >>)
    /\ Cardinality(BoundEntities(entry)) = 2
    /\ outcome.kind = "no_data"
    /\ requests = 1 /\ completed = 2
    /\ data[1].last_error = Some("No sensor data available")

\* The scheduler can start a cycle
CanStartCycle ==
    \E states \in [ BoundEntities(entry) -> Readings ] :
        ENABLED (CycleSend(states) \/ CycleNoData(states))

\* C6: a cycle in which an exception was raised has returned: its snapshot
\* has status 'error' and carries the exception's message, the message is
\* the tracker's last_error, and the scheduler can start the next cycle.
C6_ExceptionStaysInCycle ==
    outcome.kind = "exception" =>
      /\ pc = "idle"
      /\ data # None
      /\ data[1].status = "error"
      /\ data[1].last_error = Some(outcome.text)
      /\ last_error = Some(outcome.text)
      /\ cycles < MaxCycles => CanStartCycle

\* The request of the first cycle was sent and raised
C6_Witness ==
    /\ outcome.kind = "exception"
    /\ requests = 1 /\ completed = 1
    /\ data[1].status = "error"
    /\ CanStartCycle

\* What the result mapping documents for a transport outcome
DocumentedError(o) ==
    IF o.kind = "response"
    THEN IF o.status = 200 THEN None
         ELSE IF o.status = 429 THEN Some("Rate limit exceeded (429)")
         ELSE Some("HTTP " \o ToString(o.status) \o ": " \o o.text)
    ELSE IF o.kind = "client_error" THEN Some("Connection error: " \o o.text)
    ELSE Some("Request timed out")

\* C7: whatever the transport did with the request, the cycle reports the
\* documented result: ok exactly for HTTP 200, the error null exactly when
\* ok, and otherwise the message documented for that outcome.
C7_ResultMapping ==
    (BetweenCycles /\ outcome.kind \in { "response", "client_error", "timeout" }) =>
      /\ data[1].status = "ok" <=> Succeeded
      /\ data[1].last_error = None <=> data[1].status = "ok"
      /\ data[1].last_error = DocumentedError(outcome)
      /\ last_error = DocumentedError(outcome)

\* A response that is neither 200 nor 429
C7_Witness ==
    /\ BetweenCycles
    /\ outcome = Response(500, "boom")
    /\ data[1].last_error = Some("HTTP 500: boom")

\* C8: in debug mode no record logged during a cycle shows the secret key
\* or the site id.
C8_LogShowsNoSecret ==
    debug_mode =>
      \A i \in 1..Len(log) :
        /\ ~Shows(log[i], entry.data[CONF_AUTH_KEY])
        /\ ~Shows(log[i], entry.data[CONF_SITE_ID])

\* last_sent_data of a snapshot or of the sensor's attributes is there only
\* in debug mode, and without the two credential entries
Stripped(d) ==
    "last_sent_data" \in DOMAIN d =>
      /\ debug_mode
      /\ "siteAuthenticationKey" \notin DOMAIN d.last_sent_data
      /\ "siteid" \notin DOMAIN d.last_sent_data

\* C9: every snapshot, and the attributes the status sensor shows from it,
\* has last_sent_data only in debug mode and then without the
\* siteAuthenticationKey and siteid entries.
C9_LastSentDataStripped ==
    data # None =>
      /\ Stripped(data[1])
      /\ Stripped(extra_state_attributes(data, entry))

\* A debug-mode snapshot that does carry last_sent_data
C9_Witness ==
    /\ data # None
    /\ "last_sent_data" \in DOMAIN data[1]
    /\ "tempf" \in DOMAIN data[1].last_sent_data
    /\ "last_sent_data" \in DOMAIN extra_state_attributes(data, entry)

\* C10: when a cycle is abandoned with its request in flight, no field of
\* the upload state differs from its value when that cycle started.
C10_AbandonLeavesStateUntouched ==
    pc = "abandoned" => UploadState = pre[1]

\* C11: a cycle issues at most one HTTP request whatever its outcome: the
\* request counter starts at 0 and only the step that starts a cycle raises
\* it, by exactly one; no outcome of that request (429, another non-200
\* status, a connection error, a timeout) and no other step issues another.
C11_OneRequestPerCycle ==
    /\ requests = 0
    /\ [][ requests' # requests =>
             /\ requests' = requests + 1
             /\ cycles' = cycles + 1 ]_vars

\* The second cycle's request is in flight after the first was rate limited
C11_Witness ==
    /\ pc = "in_flight"
    /\ cycles = 2
    /\ requests = 2
    /\ last_error = Some("Rate limit exceeded (429)")

\* C12: a cycle whose request is in flight eventually returns a snapshot
\* unless the host abandons it, even if the endpoint never answers, because
\* the request's timeout expires; a cycle the timeout ended has the error
\* "Request timed out" and leaves the scheduler free to start the next one.
C12_CycleCompletes ==
    /\ (pc = "in_flight") ~> (pc = "abandoned" \/ (pc = "idle" /\ data # None))
    /\ [](BetweenCycles /\ outcome = Timeout =>
            /\ data[1].last_error = Some("Request timed out")
            /\ cycles < MaxCycles => ENABLED CycleStarts)

\* The second cycle's request is in flight after the first timed out
C12_Witness ==
    /\ pc = "in_flight"
    /\ cycles = 2
    /\ last_error = Some("Request timed out")

\* C13: last_upload starts null; only the return of a cycle whose request
\* got HTTP 200 changes it, to that cycle's time; once set it is never null
\* again; and every snapshot carries the tracker's last_upload.
C13_LastUploadOnlyBySuccess ==
    /\ last_upload = None
    /\ [][ /\ last_upload' # last_upload =>
               /\ Completes
               /\ outcome'.kind = "response" /\ outcome'.status = 200
               /\ last_upload' = Some(now')
           /\ last_upload # None => last_upload' # None
           /\ Completes =>
               data'[1].last_upload =
                 IF last_upload' = None THEN None
                 ELSE Some(isoformat(last_upload'[1])) ]_vars

\* A connection error after a success: the snapshot still has the first
\* cycle's time
C13_Witness ==
    /\ BetweenCycles
    /\ outcome.kind = "client_error"
    /\ now = DEFAULT_UPDATE_INTERVAL
    /\ last_upload = Some(0)
    /\ data[1].last_upload = Some(isoformat(0))

\* C15: with debug mode off, last_request_params is null after any
\* sequence of cycles.
C15_NoParamsWhenDebugOff ==
    ~debug_mode => last_request_params = None


\* ---------------------------------------------------- claims on functions
\* The application in probe
Applied(fn) == probe # None /\ probe[1].fn = fn

\* The slots of a collect application whose sensor has a state that is
\* there, is not "unknown" or "unavailable", and that float() accepts
Reading(a, k) == a.states[k][1]
GoodSlots(a) ==
    { k \in a.bound :
        /\ a.states[k] # None
        /\ Reading(a, k).state \notin { "unknown", "unavailable" }
        /\ float(Reading(a, k).state) # None }

\* The state strings that are the decimal notation of a finite number
FiniteNumerals == { "20.0", "20.06", "25.0", "1013.25", "-3.456" }

\* C14: the observation has an entry for a slot if and only if the slot is
\* bound, its sensor's state exists and is neither "unknown" nor
\* "unavailable", and the state's value parses as a finite number: a NaN or
\* infinite value is skipped like one that does not parse.
C14_EntryIffFiniteReading ==
    Applied("collect") =>
      LET a == probe[1]
      IN  \A k \in AllSlots :
            SENSOR_TO_WOW_PARAM[k] \in DOMAIN a.weather_data
            <=> /\ k \in a.bound
                /\ a.states[k] # None
                /\ Reading(a, k).state \notin { "unknown", "unavailable" }
                /\ Reading(a, k).state \in FiniteNumerals

\* The rows of the documented conversion table: the category, the unit
\* strings of the row, and the formula value * p / q + add (add in
\* hundredths)
Row(category, units, p, q, add) ==
    [ category |-> category, units |-> units, p |-> p, q |-> q, add |-> add ]
DocumentedRows ==
    { Row("temperature", { <<"°", "c">>, <<"c">>,
                           <<"c", "e", "l", "s", "i", "u", "s">> }, 9, 5, 3200),
      Row("temperature", { <<"°", "f">>, <<"f">>,
                           <<"f", "a", "h", "r", "e", "n", "h", "e", "i", "t">> },
          1, 1, 0),
      Row("pressure", { <<"h", "p", "a">>, <<"m", "b", "a", "r">>, <<"m", "b">> },
          2953, 100000, 0),
      Row("pressure", { <<"i", "n", "h", "g">>, <<"i", "n">> }, 1, 1, 0),
      Row("pressure", { <<"m", "m", "h", "g">> }, 3937, 100000, 0),
      Row("pressure", { <<"p", "a">> }, 2953, 10000000, 0),
      Row("rain", { <<"m", "m">>,
                    <<"m", "i", "l", "l", "i", "m", "e", "t", "e", "r">>,
                    <<"m", "i", "l", "l", "i", "m", "e", "t", "e", "r", "s">> },
          3937, 100000, 0),
      Row("rain", { <<"i", "n">>, <<"i", "n", "c", "h">>,
                    <<"i", "n", "c", "h", "e", "s">> }, 1, 1, 0),
      Row("rain", { <<"c", "m">> }, 39370, 100000, 0),
      Row("wind_speed", { <<"m", "/", "s">>, <<"m", "s">> }, 223694, 100000, 0),
      Row("wind_speed", { <<"k", "m", "/", "h">>, <<"k", "m", "h">>,
                          <<"k", "p", "h">> }, 621371, 1000000, 0),
      Row("wind_speed", { <<"m", "p", "h">> }, 1, 1, 0),
      Row("wind_speed", { <<"k", "n">>, <<"k", "t">>,
                          <<"k", "n", "o", "t", "s">> }, 115078, 100000, 0) }

\* The documented fallback unit of the categories that have one
FallbackUnit ==
    [ temperature |-> <<"°", "C">>, pressure |-> <<"h", "P", "a">>,
      rain |-> <<"m", "m">>, wind_speed |-> <<"m", "/", "s">> ]

\* The row of the table that a convert application's category and unit
\* string select, if there is one
RowsOf(a) ==
    { row \in DocumentedRows :
        /\ a.written # None
        /\ row.category = a.sensor_type
        /\ a.written[1] \in row.units }

\* A rational in lowest terms
RECURSIVE Gcd(_, _)
Gcd(m, n) == IF n = 0 THEN m ELSE Gcd(n, m % n)
Abs(n) == IF n < 0 THEN 0 - n ELSE n
Normalize(v) ==
    LET g == Gcd(Abs(v[1]), Abs(v[2]))
    IN  IF g = 0 THEN v ELSE << v[1] \div g, v[2] \div g >>

\* value * p / q + add
Documented(row, v) ==
    << v[1] * row.p + row.add * row.q * v[2], row.q * v[2] >>

\* C16: convert returns a number for every input, and for a category with
\* a documented fallback (Temperature °C, Pressure hPa, Rain mm, WindSpeed
\* m/s) a null unit, an empty unit and a unit string the category does not
\* recognise all give the result of converting from the fallback unit.
C16_UnknownUnitFallsBack ==
    Applied("convert") =>
      LET a == probe[1]
      IN  /\ Len(a.result) = 2
          /\ a.sensor_type \in DOMAIN FallbackUnit /\ RowsOf(a) = { } =>
               a.result = convert_value_with_unit(a.value, a.sensor_type,
                                                  Some(FallbackUnit[a.sensor_type]))

\* 20.0 with a null unit under Temperature is 68.0
C16_Witness ==
    /\ Applied("convert")
    /\ probe[1].sensor_type = SENSOR_TYPE_TEMPERATURE
    /\ probe[1].unit = None
    /\ probe[1].value = << 2000, 1 >>
    /\ Normalize(probe[1].result) = << 6800, 1 >>

\* C17: for a unit string of the table under its category, in any case and
\* with blanks around it, convert gives the value of the row's documented
\* formula ("in" is the identity under Pressure and under Rain); under
\* Humidity and WindDirection it returns the value for any unit string.
C17_RecognizedUnitsFollowTable ==
    Applied("convert") =>
      LET a == probe[1]
      IN  /\ \A row \in RowsOf(a) :
                Normalize(a.result) = Normalize(Documented(row, a.value))
          /\ a.sensor_type \in { SENSOR_TYPE_HUMIDITY, SENSOR_TYPE_WIND_DIR } =>
                a.result = a.value

\* -5.5 " KM/H  " is -3.417541 mph
C17_Witness ==
    /\ Applied("convert")
    /\ probe[1].sensor_type = SENSOR_TYPE_WIND_SPEED
    /\ probe[1].unit = Some(<<" ", "K", "M", "/", "H", " ", " ">>)
    /\ probe[1].value = << -550, 1 >>
    /\ probe[1].result = << -550 * 621371, 1000000 >>


\* The four metadata keys of a request
MetadataKeys == { "siteid", "siteAuthenticationKey", "dateutc", "softwaretype" }

\* What a slot with a good reading contributes: its sensor's value,
\* converted from the sensor's unit by the slot's category
Converted(a, k) ==
    LET attrs == Reading(a, k).attributes
    IN  convert_value_with_unit(
          float(Reading(a, k).state)[1], SENSOR_TYPES[k],
          IF ATTR_UNIT_OF_MEASUREMENT \in DOMAIN attrs
          THEN Some(attrs[ATTR_UNIT_OF_MEASUREMENT]) ELSE None)

\* C18: a request has exactly the four metadata keys plus one key per
\* observation entry, each slot's value under the slot's own wire name;
\* distinct slots have distinct wire names and no wire name is a metadata
\* key, so no value overwrites another slot's or a metadata value.
C18_RequestKeys ==
    /\ \A j, k \in AllSlots : j # k => SENSOR_TO_WOW_PARAM[j] # SENSOR_TO_WOW_PARAM[k]
    /\ \A k \in AllSlots : SENSOR_TO_WOW_PARAM[k] \notin MetadataKeys
    /\ Applied("collect") /\ probe[1].params # None =>
         LET a == probe[1]
             params == a.params[1]
         IN  /\ DOMAIN params = MetadataKeys \cup DOMAIN a.weather_data
             /\ Cardinality(DOMAIN params) = 4 + Cardinality(GoodSlots(a))
             /\ \A k \in GoodSlots(a) :
                  params[SENSOR_TO_WOW_PARAM[k]] = StrFloat(round(Converted(a, k), 2))
             /\ params.siteid = TheSiteId
             /\ params.siteAuthenticationKey = TheAuthKey
             /\ params.softwaretype = SOFTWARE_TYPE

\* All nine slots are bound and read: the request has thirteen keys
C18_Witness ==
    /\ Applied("collect")
    /\ probe[1].bound = AllSlots
    /\ probe[1].params # None
    /\ Cardinality(DOMAIN probe[1].params[1]) = 13
    /\ probe[1].params[1].dewptf = "68.0"

\* C19: every finite observation entry is a whole number of hundredths, at
\* most half a hundredth away from the converted sensor value (a nan or
\* infinite value is itself); 1013.25 hPa is sent as 29.92.
C19_EntriesRoundedToHundredths ==
    Applied("collect") =>
      LET a == probe[1]
      IN  /\ \A k \in GoodSlots(a) :
                LET exact == Converted(a, k)
                    v == a.weather_data[SENSOR_TO_WOW_PARAM[k]]
                IN  IF IsFinite(exact)
                    THEN /\ v[2] = 1
                         /\ 2 * Abs(v[1] * exact[2] - exact[1]) <= exact[2]
                    ELSE v = exact
          /\ \A k \in GoodSlots(a) :
                /\ SENSOR_TYPES[k] = SENSOR_TYPE_PRESSURE
                /\ Reading(a, k).state = "1013.25"
                => a.params[1].baromin = "29.92"

\* 20.06 °C is 68.108 °F and is entered as 68.11
C19_Witness ==
    /\ Applied("collect")
    /\ probe[1].bound = { CONF_SENSOR_TEMPERATURE }
    /\ probe[1].states[CONF_SENSOR_TEMPERATURE] # None
    /\ Reading(probe[1], CONF_SENSOR_TEMPERATURE).state = "20.06"
    /\ probe[1].weather_data = ( "tempf" :> << 6811, 1 >> )

\* The value of a key by the documented precedence
Precedence(e, key, default) ==
    IF key \in DOMAIN e.options THEN e.options[key]
    ELSE IF key \in DOMAIN e.data THEN e.data[key]
    ELSE default

\* C20: the coordinator's interval, debug flag and temperature binding are
\* the value in entry.options when the key is there, otherwise the value in
\* entry.data, otherwise the default (10 minutes, debug off, unbound).
C20_OptionsThenDataThenDefault ==
    Applied("init") =>
      LET a == probe[1]
          bound == Precedence(a.entry, CONF_SENSOR_TEMPERATURE, "")
      IN  /\ a.update_interval =
                Precedence(a.entry, CONF_UPDATE_INTERVAL, DEFAULT_UPDATE_INTERVAL)
          /\ a.debug_mode = Precedence(a.entry, CONF_DEBUG_MODE, FALSE)
          /\ a.weather_data =
                IF bound = "" THEN << >>
                ELSE IF bound = OtherEntity THEN ( "tempf" :> << 7700, 1 >> )
                ELSE ( "tempf" :> << 6800, 1 >> )

\* The options differ from the data in all three keys and win
C20_Witness ==
    /\ Applied("init")
    /\ DOMAIN probe[1].entry.options =
         { CONF_UPDATE_INTERVAL, CONF_DEBUG_MODE, CONF_SENSOR_TEMPERATURE }
    /\ DOMAIN probe[1].entry.data =
         { CONF_SITE_ID, CONF_AUTH_KEY,
           CONF_UPDATE_INTERVAL, CONF_DEBUG_MODE, CONF_SENSOR_TEMPERATURE }
    /\ probe[1].entry.data[CONF_UPDATE_INTERVAL] = 30
    /\ probe[1].entry.data[CONF_DEBUG_MODE] = TRUE
    /\ probe[1].entry.data[CONF_SENSOR_TEMPERATURE] = EntityOf(CONF_SENSOR_TEMPERATURE)
    /\ probe[1].update_interval = 15
    /\ probe[1].debug_mode = FALSE
    /\ probe[1].weather_data = ( "tempf" :> << 7700, 1 >> )


\* C22: every snapshot a cycle returned is consistent in itself: its status
\* is "ok" if and only if its last_error is null, and its upload_count is at
\* least 1 if and only if its last_upload is not null.
C22_SnapshotConsistent ==
    data # None =>
      /\ data[1].status = "ok" <=> data[1].last_error = None
      /\ data[1].upload_count >= 1 <=> data[1].last_upload # None

\* The snapshot of a rate-limited cycle that followed two successes
C22_Witness ==
    /\ BetweenCycles
    /\ outcome.kind = "response" /\ outcome.status = 429
    /\ data[1].status = "error"
    /\ data[1].last_error = Some("Rate limit exceeded (429)")
    /\ data[1].upload_count = 2
    /\ data[1].last_upload # None


\* C21: while async_setup_entry awaits the first refresh no cycle of the
\* new coordinator has returned, the coordinator is not registered and the
\* status sensor does not exist; the return of that one cycle, whatever its
\* outcome, is the step that registers the coordinator, creates the sensor
\* and makes setup return True (it never ends in ConfigEntryNotReady); and
\* the coordinator is removed only by an unload whose platforms unloaded.
C21_SetupAfterOneCycle ==
    /\ [](setup = "running" => ~hass_data /\ ~platforms /\ data = None)
    /\ [](setup # "not_ready")
    /\ [][ /\ setup = "running" /\ Completes =>
                setup' = "loaded" /\ hass_data' /\ platforms'
           /\ ~hass_data /\ hass_data' => setup = "running" /\ Completes
           /\ hass_data /\ ~hass_data' => setup' \in { "unloaded", "running" }
           /\ setup' = "failed_unload" => hass_data' = hass_data ]_vars

\* The first refresh timed out and the entry is loaded all the same
C21_Witness ==
    /\ setup = "loaded"
    /\ hass_data
    /\ platforms
    /\ completed = 1
    /\ outcome = Timeout

\* C23: two requests for the same site are never issued less than the
\* update interval (at least 10 minutes) apart, an options update and the
\* reload it causes included.
C23_RequestsAnIntervalApart ==
    sent_at[1] # None /\ sent_at[2] # None =>
      /\ sent_at[2][1] - sent_at[1][1] >= update_interval
      /\ sent_at[2][1] - sent_at[1][1] >= MIN_UPDATE_INTERVAL

=============================================================================
